---- MODULE Spec2Model ----
(***************************************************************************)
(* Model of the OCR evaluation tool: the Textract response sanitizer, the  *)
(* provider functions of ocr_services.py and the Streamlit page of app.py. *)
(*                                                                         *)
(* JSON values are tagged records: [dict |-> f] with f a function from     *)
(* string keys to values, [list |-> s] with s a sequence of values,        *)
(* [str |-> "a"], [num |-> 1] and [null |-> TRUE].  A Python dict compares  *)
(* equal whatever its key order, as a function does.                       *)
(*                                                                         *)
(* A Python string is a sequence of tokens; + is \o.  A literal of the     *)
(* source is one token, so is each interpolated value.                     *)
(***************************************************************************)
EXTENDS Integers, Sequences, FiniteSets, TLC

VARIABLES
    sphase,     \* sanitizer run: "input", "cleaned", "recleaned"
    payload,    \* the response handed to _clean_textract_response
    cleaned,    \* _clean_textract_response(payload)
    recleaned,  \* _clean_textract_response(cleaned)
    pphase,     \* provider call: "ready", "returned"
    prov,       \* the provider function called
    penv,       \* what the world answers during the call (file, vendor, keys)
    pres,       \* what the call returned and the vendor calls it made
    selected_file,      \* the document chosen in the sidebar
    ocr_services,       \* the services chosen in the multiselect, in order
    ocr_results,        \* st.session_state.ocr_results, in insertion order
    processed,          \* st.session_state.processed
    comparison_result,  \* st.session_state.comparison_result
    comparison_model,   \* st.session_state.comparison_model
    cached_for,         \* the document and services ocr_results was produced for
    comparison_input,   \* the mapping comparison_result was computed from
    pc,         \* script run: "idle", "processing", "stored", "raised"
    pos,        \* position of process_document in ocr_services (i + 1)
    results,    \* the local results of process_document
    run_file,   \* the document the run was started on
    run_services,   \* the services the run was started with
    log,        \* the provider calls of the run: service, env, vendor calls
    replaced    \* the mapping the session held when the run stored its own

sanVars == <<sphase, payload, cleaned, recleaned>>
provVars == <<pphase, prov, penv, pres>>
sessionVars == <<ocr_results, processed, comparison_result, comparison_model,
                 cached_for, comparison_input>>
runVars == <<pc, pos, results, run_file, run_services, log, replaced>>
appVars == <<selected_file, ocr_services, sessionVars, runVars>>
vars == <<sanVars, provVars, appVars>>

\* ------------------------------------------------------------ JSON values

IsDict(x) == DOMAIN x = {"dict"}
IsList(x) == DOMAIN x = {"list"}
IsScalar(x) == ~IsDict(x) /\ ~IsList(x)

Null == [null |-> TRUE]
Str(s) == [str |-> s]
EmptyDict == [dict |-> <<>>]
EmptyList == [list |-> <<>>]

\* key in obj
HasKey(obj, key) == IsDict(obj) /\ key \in DOMAIN obj.dict

\* ------------------------------------------------------------ sanitizer

fields_to_remove ==
    << "Geometry", "BoundingBox", "Polygon", "Relationships",
       "RowIndex", "ColumnIndex", "RowSpan", "ColumnSpan",
       "CellGeometry", "TableGeometry", "TableBoundingBox", "TablePolygon" >>

NoiseNames == { fields_to_remove[i] : i \in DOMAIN fields_to_remove }

\* json.loads(json.dumps(response)): a fresh structure, rebuilt node by node.
RECURSIVE json_roundtrip(_)
json_roundtrip(x) ==
    IF IsDict(x)
    THEN [dict |-> [k \in DOMAIN x.dict |-> json_roundtrip(x.dict[k])]]
    ELSE IF IsList(x)
    THEN [list |-> [i \in 1..Len(x.list) |-> json_roundtrip(x.list[i])]]
    ELSE x

\* A deletion loop that stops after the first listed field it deletes.
DeletedKeysFirstOnly(d) ==
    LET hits == { i \in DOMAIN fields_to_remove : fields_to_remove[i] \in DOMAIN d }
    IN  IF hits = {} THEN {}
        ELSE { fields_to_remove[CHOOSE i \in hits : \A j \in hits : i <= j] }

\* The deletion loop of remove_fields: every listed field present is deleted.
DeletedKeys(d) == { k \in DOMAIN d : k \in NoiseNames }

\* remove_fields without the branch for sequences: a list is returned as is.
RECURSIVE remove_fields_dicts_only(_)
remove_fields_dicts_only(obj) ==
    IF IsDict(obj)
    THEN LET kept == DOMAIN obj.dict \ DeletedKeys(obj.dict)
         IN  [dict |-> [k \in kept |-> remove_fields_dicts_only(obj.dict[k])]]
    ELSE obj

RECURSIVE remove_fields(_)
remove_fields(obj) ==
    IF IsDict(obj)
    THEN LET kept == DOMAIN obj.dict \ DeletedKeys(obj.dict)
         IN  [dict |-> [k \in kept |-> remove_fields(obj.dict[k])]]
    ELSE IF IsList(obj)
    THEN [list |-> [i \in 1..Len(obj.list) |-> remove_fields(obj.list[i])]]
    ELSE obj

clean_textract_response(response) == remove_fields(json_roundtrip(response))

\* ------------------------------------------------------------ strings, exceptions

\* A computation either returns a value or raises; str(e) of the exception
\* is its cause.
Ok(v) == [ret |-> v]
Exc(cause) == [exc |-> cause]
Raised(r) == DOMAIN r = {"exc"}

\* str(value) of a scalar interpolated in an f-string.
TokenOf(v) ==
    IF DOMAIN v = {"str"} THEN v.str
    ELSE IF DOMAIN v = {"num"} THEN ToString(v.num)
    ELSE "None"

\* The strings built one after another, concatenated; the first exception
\* raised on the way ends the computation.
RECURSIVE JoinAll(_)
JoinAll(rs) ==
    IF rs = <<>> THEN Ok(<<>>)
    ELSE IF Raised(Head(rs)) THEN Head(rs)
    ELSE LET rest == JoinAll(Tail(rs))
         IN  IF Raised(rest) THEN rest ELSE Ok(Head(rs).ret \o rest.ret)

\* ------------------------------------------------------------ expense formatting

\* get_text that takes the field's Type and ValueDetection for granted.
get_text_required(field, key, default) ==
    IF HasKey(field, key) /\ HasKey(field.dict[key], "Text")
    THEN Ok(TokenOf(field.dict[key].dict["Text"]))
    ELSE Exc("KeyError")

\* field.get(key, {}).get('Text', default)
get_text(field, key, default) ==
    LET inner == IF HasKey(field, key) THEN field.dict[key] ELSE EmptyDict
    IN  IF ~IsDict(inner)
        THEN Exc("'NoneType' object has no attribute 'get'")
        ELSE IF "Text" \in DOMAIN inner.dict
        THEN Ok(TokenOf(inner.dict["Text"]))
        ELSE Ok(default)

\* f"{indent}{field_type}: {field_value}\n"
field_line(indent, field) ==
    LET field_type == get_text(field, "Type", "Unknown")
        field_value == get_text(field, "ValueDetection", "N/A")
    IN  IF Raised(field_type) THEN field_type
        ELSE IF Raised(field_value) THEN field_value
        ELSE Ok(<<indent, field_type.ret, ": ", field_value.ret, "\n">>)

\* for field in fields: ... += field line
field_lines(indent, fields) ==
    JoinAll([n \in 1..Len(fields.list) |-> field_line(indent, fields.list[n])])

\* One line item: "    Item <n>:" and its expense fields.
item_block(item_idx, item) ==
    JoinAll(<< Ok(<<"    Item ", ToString(item_idx), ":\n">>),
               IF HasKey(item, "LineItemExpenseFields")
               THEN field_lines("      ", item.dict["LineItemExpenseFields"])
               ELSE Ok(<<>>) >>)

\* One line item group: "  Line Item Group <n>:" and its items.
group_block(group_idx, group) ==
    JoinAll(<< Ok(<<"  Line Item Group ", ToString(group_idx), ":\n">>),
               IF HasKey(group, "LineItems")
               THEN JoinAll([n \in 1..Len(group.dict["LineItems"].list) |->
                               item_block(n, group.dict["LineItems"].list[n])])
               ELSE Ok(<<>>) >>)

\* One expense document: "Document <n>:", its summary fields, its groups.
document_block(doc_idx, doc) ==
    JoinAll(<< Ok(<<"Document ", ToString(doc_idx), ":\n">>),
               IF HasKey(doc, "SummaryFields")
               THEN JoinAll(<< Ok(<<"  Summary Fields:\n">>),
                               field_lines("    ", doc.dict["SummaryFields"]) >>)
               ELSE Ok(<<>>),
               IF HasKey(doc, "LineItemGroups")
               THEN JoinAll([n \in 1..Len(doc.dict["LineItemGroups"].list) |->
                               group_block(n, doc.dict["LineItemGroups"].list[n])])
               ELSE Ok(<<>>) >>)

\* for doc_idx, doc in enumerate(response['ExpenseDocuments']): ...
documents_block(response) ==
    JoinAll([n \in 1..Len(response.dict["ExpenseDocuments"].list) |->
               document_block(n, response.dict["ExpenseDocuments"].list[n])])

\* page_block that writes the page header for the first page only.
page_block_first_header_only(page_num, response) ==
    IF HasKey(response, "ExpenseDocuments")
    THEN JoinAll(<< Ok(IF page_num = 1 THEN <<"--- PAGE ", ToString(page_num), " ---\n">>
                                         ELSE <<>>),
                    documents_block(response) >>)
    ELSE Ok(<<>>)

\* The part of the combined summary one page of a PDF gives: a page header
\* and the documents, or nothing when the response has no ExpenseDocuments.
page_block(page_num, response) ==
    IF HasKey(response, "ExpenseDocuments")
    THEN JoinAll(<< Ok(<<"--- PAGE ", ToString(page_num), " ---\n">>),
                    documents_block(response) >>)
    ELSE Ok(<<>>)

\* The summary of an image: a title and the documents; without
\* ExpenseDocuments the name summary is read before it is bound.
image_summary(cleaned_response) ==
    IF HasKey(cleaned_response, "ExpenseDocuments")
    THEN JoinAll(<< Ok(<<"AWS Textract Analysis Summary (AnalyzeExpense):\n\n">>),
                    documents_block(cleaned_response) >>)
    ELSE Exc("cannot access local variable 'summary' where it is not associated with a value")

\* ------------------------------------------------------------ plain-text extraction

\* block_text without the test of the block's type.
block_text_any_type(item) ==
    (IF HasKey(item, "Text") THEN <<item.dict["Text"].str>> ELSE <<>>) \o <<"\n">>

\* if item.get("BlockType") == "LINE": extracted_text += item.get("Text", "") + "\n"
block_text(item) ==
    IF HasKey(item, "BlockType") /\ item.dict["BlockType"] = Str("LINE")
    THEN (IF HasKey(item, "Text") THEN <<item.dict["Text"].str>> ELSE <<>>) \o <<"\n">>
    ELSE <<>>

RECURSIVE extracted_text(_)
extracted_text(blocks) ==
    IF blocks = <<>> THEN <<>>
    ELSE block_text(Head(blocks)) \o extracted_text(Tail(blocks))

\* The summary of the DetectDocumentText fallback.
detect_summary(cleaned_response) ==
    <<"AWS Textract Analysis Summary (DetectDocumentText):\n\n", "Extracted Text:\n">>
    \o extracted_text(IF HasKey(cleaned_response, "Blocks")
                      THEN cleaned_response.dict["Blocks"].list
                      ELSE <<>>)

\* ------------------------------------------------------------ AWS Textract

\* A vendor call made during a provider call: the API, and whether it was
\* given one rasterized page (page >= 1) or the whole file (page = 0).
VendorCall(api, page) == [api |-> api, page |-> page]

\* What a vendor call answers: without credentials every call fails.
VendorAnswer(env, answer) ==
    IF env.creds THEN answer ELSE [err |-> "Unable to locate credentials"]

ImportErrorText ==
    "PDF processing requires pdf2image library. Install with: pip install pdf2image"

\* convert_pdf_to_image_bytes with page numbers counted from 0.
convert_pdf_zero_based(env) ==
    IF env.raster = "import_error" THEN Exc(ImportErrorText)
    ELSE IF env.raster = "error" THEN Exc("Error converting PDF to images")
    ELSE IF env.pages = 0 THEN Ok(<<>>)
    ELSE Ok([n \in 1..env.pages |-> n - 1])

\* The page numbers of the (page_num, image_bytes) list, () for None, or
\* the ImportError or Exception raised.
convert_pdf_to_image_bytes(env) ==
    IF env.raster = "import_error" THEN Exc(ImportErrorText)
    ELSE IF env.raster = "error" THEN Exc("Error converting PDF to images")
    ELSE IF env.pages = 0 THEN Ok(<<>>)
    ELSE Ok([n \in 1..env.pages |-> n])

\* except Exception as e: return f"Error processing with AWS Textract: {str(e)}"
textract_error(cause, calls) ==
    [ret |-> <<"Error processing with AWS Textract: ", cause>>, calls |-> calls]

\* The handler that answers any failure by retrying the fallback itself.
textract_fallback_retrying(env, calls) ==
    LET answer == VendorAnswer(env, env.detect)
        made == calls \o <<VendorCall("detect_document_text", 0)>>
    IN  IF ~env.exists THEN textract_error("[Errno 2] No such file or directory", calls)
        ELSE IF DOMAIN answer = {"err"}
        THEN textract_error(answer.err, made \o <<VendorCall("detect_document_text", 0)>>)
        ELSE [ret |-> detect_summary(clean_textract_response(answer.ok)),
              calls |-> made]

\* except Exception as pdf_error: one detect_document_text call on the bytes
\* of the whole file; what it raises goes to the outer handler.
textract_fallback(env, calls) ==
    LET answer == VendorAnswer(env, env.detect)
        made == calls \o <<VendorCall("detect_document_text", 0)>>
    IN  IF ~env.exists THEN textract_error("[Errno 2] No such file or directory", calls)
        ELSE IF DOMAIN answer = {"err"} THEN textract_error(answer.err, made)
        ELSE [ret |-> detect_summary(clean_textract_response(answer.ok)),
              calls |-> made]

\* The combined summary of the pages' cleaned responses.
combined_summary(page_nums, responses) ==
    JoinAll(<< Ok(<<"AWS Textract Analysis Summary (Multiple Pages):\n\n">>) >>
            \o [n \in 1..Len(page_nums) |-> page_block(page_nums[n], responses[n])])

\* except ImportError as ie: ... / except Exception as pdf_error: ...
pdf_handlers(env, exc, calls) ==
    IF exc = ImportErrorText
    THEN [ret |-> <<"PDF processing error: ", exc>>, calls |-> calls]
    ELSE textract_fallback(env, calls)

\* The PDF branch with a fallback that keeps what the pages before the
\* failing one gave and puts the plain text after it.
textract_pdf_keeping_partial(env) ==
    LET converted == convert_pdf_to_image_bytes(env)
    IN  IF Raised(converted) THEN pdf_handlers(env, converted.exc, <<>>)
        ELSE IF converted.ret = <<>>
        THEN [ret |-> <<"Failed to extract images from PDF">>, calls |-> <<>>]
        ELSE
        LET page_nums == converted.ret
            answers == [n \in 1..Len(page_nums) |-> VendorAnswer(env, env.expense[n])]
            failing == { n \in 1..Len(page_nums) : DOMAIN answers[n] = {"err"} }
            last == IF failing = {} THEN Len(page_nums)
                    ELSE CHOOSE n \in failing : \A m \in failing : n <= m
            calls == [n \in 1..last |-> VendorCall("analyze_expense", page_nums[n])]
            partial == combined_summary(SubSeq(page_nums, 1, last - 1),
                          [n \in 1..(last - 1) |-> clean_textract_response(answers[n].ok)])
            fallback == pdf_handlers(env, "failed", calls)
        IN  IF failing # {}
            THEN IF Raised(partial) THEN fallback
                 ELSE [ret |-> partial.ret \o fallback.ret, calls |-> fallback.calls]
            ELSE LET summary == combined_summary(page_nums,
                                   [n \in 1..Len(page_nums) |->
                                      clean_textract_response(answers[n].ok)])
                 IN  IF Raised(summary) THEN pdf_handlers(env, summary.exc, calls)
                     ELSE [ret |-> summary.ret, calls |-> calls]

\* The PDF branch: rasterize, analyze_expense page by page, format; what is
\* raised on the way goes to the handlers of the branch.
textract_pdf(env) ==
    LET converted == convert_pdf_to_image_bytes(env)
    IN  IF Raised(converted) THEN pdf_handlers(env, converted.exc, <<>>)
        ELSE IF converted.ret = <<>>
        THEN [ret |-> <<"Failed to extract images from PDF">>, calls |-> <<>>]
        ELSE
        LET page_nums == converted.ret
            answers == [n \in 1..Len(page_nums) |-> VendorAnswer(env, env.expense[n])]
            failing == { n \in 1..Len(page_nums) : DOMAIN answers[n] = {"err"} }
            last == IF failing = {} THEN Len(page_nums)
                    ELSE CHOOSE n \in failing : \A m \in failing : n <= m
            calls == [n \in 1..last |-> VendorCall("analyze_expense", page_nums[n])]
        IN  IF failing # {} THEN pdf_handlers(env, answers[last].err, calls)
            ELSE LET summary == combined_summary(page_nums,
                                   [n \in 1..Len(page_nums) |->
                                      clean_textract_response(answers[n].ok)])
                 IN  IF Raised(summary) THEN pdf_handlers(env, summary.exc, calls)
                     ELSE [ret |-> summary.ret, calls |-> calls]

\* The image branch with the handlers of the PDF branch: a failed call is
\* followed by the plain-text call.
textract_image_falling_back(env) ==
    LET answer == VendorAnswer(env, env.expense[1])
        calls == <<VendorCall("analyze_expense", 0)>>
    IN  IF ~env.exists THEN textract_error("[Errno 2] No such file or directory", <<>>)
        ELSE IF DOMAIN answer = {"err"} THEN textract_fallback(env, calls)
        ELSE LET summary == image_summary(clean_textract_response(answer.ok))
             IN  IF Raised(summary) THEN textract_error(summary.exc, calls)
                 ELSE [ret |-> summary.ret, calls |-> calls]

\* The image branch: one analyze_expense call on the bytes of the file.
textract_image(env) ==
    LET answer == VendorAnswer(env, env.expense[1])
        calls == <<VendorCall("analyze_expense", 0)>>
    IN  IF ~env.exists THEN textract_error("[Errno 2] No such file or directory", <<>>)
        ELSE IF DOMAIN answer = {"err"} THEN textract_error(answer.err, calls)
        ELSE LET summary == image_summary(clean_textract_response(answer.ok))
             IN  IF Raised(summary) THEN textract_error(summary.exc, calls)
                 ELSE [ret |-> summary.ret, calls |-> calls]

aws_textract_ocr(env) ==
    IF env.ext = ".pdf" THEN textract_pdf(env) ELSE textract_image(env)

\* ------------------------------------------------------------ Landing AI, Mistral OCR

\* json.dumps(result, indent=2): one token, the text of the value.
json_dumps(result) == ToString(result)

HttpCall == VendorCall("requests.post", 0)

\* landing_error with the message of the Mistral function pasted in.
landing_error_pasted(cause, calls) ==
    [ret |-> <<"Error processing with Mistral OCR: ", cause>>, calls |-> calls]

landing_error(cause, calls) ==
    [ret |-> <<"Error processing with Landing AI: ", cause>>, calls |-> calls]

landing_ai_ocr(env) ==
    IF ~env.key
    THEN [ret |-> <<"Landing AI credentials not configured in .env file">>, calls |-> <<>>]
    ELSE IF env.ext \notin {".jpg", ".jpeg", ".png", ".pdf"}
    THEN [ret |-> <<"Unsupported file type for Landing AI: ", env.ext>>, calls |-> <<>>]
    ELSE IF ~env.exists THEN landing_error("[Errno 2] No such file or directory", <<>>)
    ELSE IF DOMAIN env.http = {"exc"} THEN landing_error(env.http.exc, <<HttpCall>>)
    ELSE IF env.http.status = 200
    THEN IF env.http.json = <<>>
         THEN landing_error("Expecting value: line 1 column 1 (char 0)", <<HttpCall>>)
         ELSE [ret |-> <<json_dumps(env.http.json[1])>>, calls |-> <<HttpCall>>]
    ELSE [ret |-> <<"Landing AI API error: ", ToString(env.http.status), " - ", env.http.text>>,
          calls |-> <<HttpCall>>]

\* page.get(key, default), as the text interpolated in the summary.
page_get(page, key, default) ==
    IF HasKey(page, key) THEN TokenOf(page.dict[key]) ELSE default

\* The section of the Mistral summary one page gives.
mistral_page(page) ==
    <<"--- PAGE ", page_get(page, "index", "0"), " ---\n">>
    \o (IF HasKey(page, "dimensions")
        THEN <<"Dimensions: ", page_get(page.dict["dimensions"], "width", "N/A"),
               "x", page_get(page.dict["dimensions"], "height", "N/A"),
               " (DPI: ", page_get(page.dict["dimensions"], "dpi", "N/A"), ")\n">>
        ELSE <<>>)
    \o (IF HasKey(page, "images")
        THEN <<"Images: ", ToString(Len(page.dict["images"].list)), "\n">>
        ELSE <<>>)
    \o (IF HasKey(page, "markdown")
        THEN <<"\nText Content:\n", TokenOf(page.dict["markdown"]), "\n\n">>
        ELSE <<>>)

RECURSIVE mistral_pages(_)
mistral_pages(pages) ==
    IF pages = <<>> THEN <<>>
    ELSE mistral_page(Head(pages)) \o mistral_pages(Tail(pages))

mistral_error(cause, calls) ==
    [ret |-> <<"Error processing with Mistral OCR: ", cause>>, calls |-> calls]

mistral_ocr(env) ==
    IF ~env.key
    THEN [ret |-> <<"Mistral OCR credentials not configured in .env file">>, calls |-> <<>>]
    ELSE IF env.ext \notin {".pdf", ".jpg", ".jpeg", ".png"}
    THEN [ret |-> <<"Unsupported file type for Mistral OCR: ", env.ext>>, calls |-> <<>>]
    ELSE IF ~env.exists THEN mistral_error("[Errno 2] No such file or directory", <<>>)
    ELSE IF DOMAIN env.http = {"exc"} THEN mistral_error(env.http.exc, <<HttpCall>>)
    ELSE IF env.http.status # 200
    THEN [ret |-> <<"Mistral OCR API error: ", ToString(env.http.status), " - ", env.http.text>>,
          calls |-> <<HttpCall>>]
    ELSE IF env.http.json = <<>>
    THEN mistral_error("Expecting value: line 1 column 1 (char 0)", <<HttpCall>>)
    ELSE LET result == env.http.json[1]
         IN  [ret |-> <<"Mistral OCR Analysis Summary:\n\n">>
                      \o (IF HasKey(result, "pages")
                          THEN mistral_pages(result.dict["pages"].list)
                          ELSE <<>>)
                      \o <<"\n\nFull Response:\n", json_dumps(result)>>,
              calls |-> <<HttpCall>>]

\* ------------------------------------------------------------ LLM comparison

\* len(text), for a text given by its pieces.
RECURSIVE CharLen(_)
CharLen(text) == IF text = <<>> THEN 0 ELSE Len(Head(text)) + CharLen(Tail(text))

\* The labelled results: a heading, the result and a separator per service,
\* in the order of the mapping.
RECURSIVE formatted_results(_)
formatted_results(given) ==
    IF given = <<>> THEN <<>>
    ELSE <<"\n\n### ", Head(given).service, " Results ###\n\n">>
         \o Head(given).result
         \o <<"\n\n--------------------------------------------------\n\n">>
         \o formatted_results(Tail(given))

RECURSIVE summary_lines(_)
summary_lines(given) ==
    IF given = <<>> THEN <<>>
    ELSE <<"- ", Head(given).service, ": ",
           ToString(CharLen(Head(given).result)), " characters\n">>
         \o summary_lines(Tail(given))

\* The user prompt: the summary, then the labelled results, between the
\* fixed texts of the prompt.
user_prompt(given) ==
    <<"\n            Compare the following OCR services based on their results:\n            \n            ",
      "OCR Results Summary:\n">>
    \o summary_lines(given)
    \o <<"\n            \n            Below are the detailed OCR results from each service. Each service's results are clearly labeled.\n            \n            ">>
    \o formatted_results(given)
    \o <<"\n            \n            Please provide a comprehensive analysis of which OCR service performed best and why.\n            Consider factors such as:\n            1. Text accuracy and correctness\n            2. Formatting preservation\n            3. Handling of special characters and symbols\n            4. Recognition of tables and structured data\n            5. Overall completeness of the extracted text\n            6. Handling of multi-page documents (if applicable)\n            \n            For each service, identify specific strengths and weaknesses with examples from the results.\n            Conclude with a recommendation of which service would be best for this type of document.\n            ">>

\* llm.invoke(messages) on the model the choice stands for.
LlmCall(model, given) ==
    [api |-> "llm.invoke", model |-> model, prompt |-> user_prompt(given)]

\* What compare_ocr_results gives once the model is chosen: the content of
\* the answer, or the error string of the except clause.
invoke_llm(given, model_choice, model, env) ==
    IF DOMAIN env.llm = {"err"}
    THEN [ret |-> <<"Error comparing OCR results with ", model_choice, ": ", env.llm.err>>,
          calls |-> <<LlmCall(model, given)>>, results |-> given]
    ELSE [ret |-> env.llm.ok, calls |-> <<LlmCall(model, given)>>, results |-> given]

\* compare_ocr_results that builds the client without looking at the key:
\* the client raises without one.
compare_ocr_results_key_unchecked(given, model_choice, env) ==
    IF model_choice = "OpenAI GPT-4o"
    THEN IF ~env.openai_key
         THEN [ret |-> <<"Error comparing OCR results with ", model_choice, ": ",
                         "The api_key client option must be set">>,
               calls |-> <<>>, results |-> given]
         ELSE invoke_llm(given, model_choice, "gpt-4o", env)
    ELSE IF model_choice = "Claude Sonnet 3.5"
    THEN IF ~env.anthropic_key
         THEN [ret |-> <<"Error comparing OCR results with ", model_choice, ": ",
                         "The api_key client option must be set">>,
               calls |-> <<>>, results |-> given]
         ELSE invoke_llm(given, model_choice, "claude-3-sonnet-20240229", env)
    ELSE [ret |-> <<"Unsupported model choice: ", model_choice>>,
          calls |-> <<>>, results |-> given]

\* The string returned, the calls made on the model, and the mapping as the
\* function leaves it: it only reads it.
compare_ocr_results(given, model_choice, env) ==
    IF model_choice = "OpenAI GPT-4o"
    THEN IF ~env.openai_key
         THEN [ret |-> <<"OpenAI API key not configured in .env file">>,
               calls |-> <<>>, results |-> given]
         ELSE invoke_llm(given, model_choice, "gpt-4o", env)
    ELSE IF model_choice = "Claude Sonnet 3.5"
    THEN IF ~env.anthropic_key
         THEN [ret |-> <<"Anthropic API key not configured in .env file">>,
               calls |-> <<>>, results |-> given]
         ELSE invoke_llm(given, model_choice, "claude-3-sonnet-20240229", env)
    ELSE [ret |-> <<"Unsupported model choice: ", model_choice>>,
          calls |-> <<>>, results |-> given]

\* ------------------------------------------------------------ bounded inputs

MaxNodes == 4

SampleKeys == << "Geometry", "Polygon", "Text" >>
SampleScalars == { Str("a"), [num |-> 1] }

\* JSON values of exactly n nodes over SampleKeys and SampleScalars.
RECURSIVE ValsOfSize(_), ListsOfSize(_), DictsOfSize(_, _)
ValsOfSize(n) ==
    IF n = 1 THEN SampleScalars \cup {EmptyDict, EmptyList}
    ELSE { [list |-> s] : s \in ListsOfSize(n - 1) }
         \cup { [dict |-> d] : d \in DictsOfSize(1, n - 1) }
ListsOfSize(m) ==
    IF m = 0 THEN { <<>> }
    ELSE UNION { { <<v>> \o s : v \in ValsOfSize(k), s \in ListsOfSize(m - k) }
                 : k \in 1..m }
DictsOfSize(i, m) ==
    IF m = 0 THEN { <<>> }
    ELSE IF i > Len(SampleKeys) THEN {}
    ELSE DictsOfSize(i + 1, m)
         \cup UNION { { (SampleKeys[i] :> v) @@ d :
                          v \in ValsOfSize(k), d \in DictsOfSize(i + 1, m - k) }
                      : k \in 1..m }

JsonInputs == UNION { ValsOfSize(n) : n \in 1..MaxNodes }

\* ------------------------------------------------------------ sanitizer runs

SanIdle == sphase = "off" /\ payload = Null /\ cleaned = Null /\ recleaned = Null
ProvIdle == pphase = "off" /\ prov = "none" /\ penv = Null /\ pres = Null
AppIdle ==
    /\ selected_file = "none" /\ ocr_services = <<>>
    /\ ocr_results = <<>> /\ processed = FALSE
    /\ comparison_result = Null /\ comparison_model = Null
    /\ cached_for = Null /\ comparison_input = Null
    /\ pc = "off" /\ pos = 0 /\ results = <<>>
    /\ run_file = "none" /\ run_services = <<>> /\ log = <<>> /\ replaced = <<>>

SanInit ==
    /\ sphase = "input"
    /\ payload \in JsonInputs
    /\ cleaned = Null
    /\ recleaned = Null
    /\ ProvIdle
    /\ AppIdle

Clean ==
    /\ sphase = "input"
    /\ cleaned' = clean_textract_response(payload)
    /\ sphase' = "cleaned"
    /\ UNCHANGED <<payload, recleaned, provVars, appVars>>

CleanAgain ==
    /\ sphase = "cleaned"
    /\ recleaned' = clean_textract_response(cleaned)
    /\ sphase' = "recleaned"
    /\ UNCHANGED <<payload, cleaned, provVars, appVars>>

SanNext == Clean \/ CleanAgain

SpecSanitize == SanInit /\ [][SanNext]_vars

\* ------------------------------------------------------------ provider inputs

MaxEntries == 2
MaxPages == 2
MaxFields == 2
MaxBlocks == 3

\* A dictionary entry that may be absent: <<>> or <<value>>.
Opt(key, o) == IF o = <<>> THEN <<>> ELSE (key :> o[1])
TextDict(t) == [dict |-> ("Text" :> Str(t))]
SeqsUpTo(S, n) == UNION { [1..m -> S] : m \in 0..n }

SampleGeometry == [dict |-> ("BoundingBox" :> [dict |-> ("Width" :> [num |-> 1])])]

\* Expense fields: Type and ValueDetection present, without Text, or absent;
\* a null Type is what a malformed response carries.
TypeOpts == { <<>>, <<EmptyDict>>, <<TextDict("VENDOR_NAME")>>, <<Null>> }
ValueOpts == { <<>>, <<EmptyDict>>, <<TextDict("Acme")>> }
SampleFields ==
    { [dict |-> Opt("Type", t) @@ Opt("ValueDetection", v)
                @@ Opt("Geometry", IF v = <<>> THEN <<>> ELSE <<SampleGeometry>>)]
      : t \in TypeOpts, v \in ValueOpts }

SampleItems ==
    { EmptyDict } \cup
    { [dict |-> ("LineItemExpenseFields" :> [list |-> fl])]
      : fl \in SeqsUpTo(SampleFields, 1) }
SampleGroups ==
    { EmptyDict, [dict |-> ("LineItems" :> EmptyList)] } \cup
    { [dict |-> ("LineItems" :> [list |-> <<it>>])] : it \in SampleItems }
GroupListOpts ==
    { <<>>, <<EmptyList>>, <<[list |-> <<EmptyDict, EmptyDict>>]>> } \cup
    { <<[list |-> <<g>>]>> : g \in SampleGroups }
AcmeItemGroups ==
    [list |-> << [dict |-> ("LineItems" :> [list |-> <<
        [dict |-> ("LineItemExpenseFields" :> [list |-> <<
            [dict |-> ("Type" :> TextDict("ITEM")) @@ ("ValueDetection" :> TextDict("Acme"))]
        >>])] >>])] >>]
\* Documents: any summary fields with no or one line item group, and short
\* summary fields with any line item groups.
SampleDocuments ==
    { [dict |-> Opt("SummaryFields", sf) @@ Opt("LineItemGroups", gl)]
      : sf \in { <<>> } \cup { <<[list |-> fl]>> : fl \in SeqsUpTo(SampleFields, MaxFields) },
        gl \in { <<>>, <<AcmeItemGroups>> } }
    \cup
    { [dict |-> Opt("SummaryFields", sf) @@ Opt("LineItemGroups", gl)]
      : sf \in { <<>> } \cup { <<[list |-> fl]>> : fl \in SeqsUpTo(SampleFields, 1) },
        gl \in GroupListOpts }

AcmeDocument ==
    [dict |-> ("SummaryFields" :>
        [list |-> << [dict |-> ("Type" :> TextDict("VENDOR_NAME"))
                               @@ ("ValueDetection" :> TextDict("Acme"))
                               @@ ("Geometry" :> SampleGeometry)] >>])]
TotalDocument ==
    [dict |-> ("SummaryFields" :>
        [list |-> << [dict |-> ("ValueDetection" :> TextDict("12.50"))] >>])]
NullTypeDocument ==
    [dict |-> ("SummaryFields" :> [list |-> << [dict |-> ("Type" :> Null)] >>])]

ExpenseResponse(docs) == [dict |-> ("ExpenseDocuments" :> [list |-> docs])]

\* What analyze_expense answers for an image.
ImageAnswers ==
    { [err |-> "ThrottlingException"], [ok |-> EmptyDict],
      [ok |-> ExpenseResponse(<<>>)],
      [ok |-> ExpenseResponse(<<AcmeDocument, TotalDocument>>)] }
    \cup { [ok |-> ExpenseResponse(<<d>>)] : d \in SampleDocuments }

\* What analyze_expense answers for one page of a PDF.
PageAnswers ==
    { [err |-> "ThrottlingException"], [ok |-> EmptyDict],
      [ok |-> ExpenseResponse(<<>>)],
      [ok |-> ExpenseResponse(<<AcmeDocument>>)],
      [ok |-> ExpenseResponse(<<AcmeDocument, TotalDocument>>)],
      [ok |-> ExpenseResponse(<<NullTypeDocument>>)] }

SampleBlocks ==
    { [dict |-> ("BlockType" :> Str("LINE")) @@ ("Text" :> Str("Hello"))
                @@ ("Geometry" :> SampleGeometry)],
      [dict |-> ("BlockType" :> Str("WORD")) @@ ("Text" :> Str("ignored"))],
      [dict |-> ("BlockType" :> Str("LINE")) @@ ("Text" :> Str("World"))],
      [dict |-> ("BlockType" :> Str("LINE"))] }

\* What detect_document_text answers.
DetectAnswers ==
    { [err |-> "UnsupportedDocumentException"], [ok |-> EmptyDict] }
    \cup { [ok |-> [dict |-> ("Blocks" :> [list |-> bl])]]
           : bl \in SeqsUpTo(SampleBlocks, MaxBlocks) }

\* The fallback answers tried after a page has failed.
FallbackAnswers ==
    { [err |-> "UnsupportedDocumentException"] }
    \cup { [ok |-> [dict |-> ("Blocks" :> [list |-> bl])]] : bl \in SeqsUpTo(SampleBlocks, 1) }

NoAnswer == [err |-> "not called"]

TextractEnv(ext, exists, creds, raster, pages, expense, detect) ==
    [ext |-> ext, exists |-> exists, creds |-> creds, raster |-> raster,
     pages |-> pages, expense |-> expense, detect |-> detect]

\* An image: the file is there or not, the keys are there or not.
TextractImageEnvs ==
    { TextractEnv(".png", TRUE, TRUE, "none", 0, <<a>>, NoAnswer) : a \in ImageAnswers }
    \cup { TextractEnv(ext, ex, cr, "none", 0, <<[ok |-> ExpenseResponse(<<AcmeDocument>>)]>>, NoAnswer)
           : ext \in {".png", ".txt"}, ex \in BOOLEAN, cr \in BOOLEAN }

\* A PDF: the renderer is missing, fails (always so on a missing file),
\* gives no page, or gives 1..MaxPages pages.
TextractPdfEnvs ==
    { TextractEnv(".pdf", ex, cr, "import_error", 0, <<>>, NoAnswer)
      : ex \in BOOLEAN, cr \in BOOLEAN }
    \cup { TextractEnv(".pdf", FALSE, cr, "error", 0, <<>>, NoAnswer) : cr \in BOOLEAN }
    \cup { TextractEnv(".pdf", TRUE, cr, "error", 0, <<>>, d)
           : cr \in BOOLEAN, d \in DetectAnswers }
    \cup { TextractEnv(".pdf", TRUE, cr, "ok", 0, <<>>, NoAnswer) : cr \in BOOLEAN }
    \cup { TextractEnv(".pdf", TRUE, TRUE, "ok", Len(ans), ans, d)
           : ans \in SeqsUpTo(PageAnswers, MaxPages) \ { <<>> }, d \in FallbackAnswers }
    \cup { TextractEnv(".pdf", TRUE, FALSE, "ok", n,
                       [m \in 1..n |-> [ok |-> ExpenseResponse(<<AcmeDocument>>)]],
                       [ok |-> EmptyDict])
           : n \in 1..MaxPages }

TextractEnvs == TextractImageEnvs \cup TextractPdfEnvs

MistralPage1 ==
    [dict |-> ("index" :> [num |-> 1]) @@ ("markdown" :> Str("Hello"))
              @@ ("images" :> EmptyList)
              @@ ("dimensions" :> [dict |-> ("width" :> [num |-> 800]) @@ ("dpi" :> [num |-> 72])])]
MistralPage2 == [dict |-> ("markdown" :> Str("World"))]

\* What the HTTP request of Landing AI or Mistral answers.
HttpAnswers ==
    { [exc |-> "Connection refused"],
      [status |-> 500, text |-> "Internal Server Error", json |-> <<>>],
      [status |-> 200, text |-> "<html>", json |-> <<>>],
      [status |-> 200, text |-> "{}", json |-> <<EmptyDict>>],
      [status |-> 200, text |-> "{...}",
       json |-> <<[dict |-> ("pages" :> [list |-> <<MistralPage1, MistralPage2>>])]>>] }

HttpEnvs ==
    { [ext |-> ext, exists |-> ex, key |-> k, http |-> h]
      : ext \in {".pdf", ".png", ".txt"}, ex \in BOOLEAN, k \in BOOLEAN, h \in HttpAnswers }

\* ------------------------------------------------------------ provider calls

ProvInit ==
    /\ SanIdle
    /\ AppIdle
    /\ pphase = "ready"
    /\ pres = Null
    /\ \/ prov = "AWS Textract" /\ penv \in TextractEnvs
       \/ prov = "Landing AI" /\ penv \in HttpEnvs
       \/ prov = "Mistral OCR" /\ penv \in HttpEnvs

CallTextract ==
    /\ pphase = "ready" /\ prov = "AWS Textract"
    /\ pres' = aws_textract_ocr(penv)
    /\ pphase' = "returned"
    /\ UNCHANGED <<prov, penv, sanVars, appVars>>

CallLandingAI ==
    /\ pphase = "ready" /\ prov = "Landing AI"
    /\ pres' = landing_ai_ocr(penv)
    /\ pphase' = "returned"
    /\ UNCHANGED <<prov, penv, sanVars, appVars>>

CallMistral ==
    /\ pphase = "ready" /\ prov = "Mistral OCR"
    /\ pres' = mistral_ocr(penv)
    /\ pphase' = "returned"
    /\ UNCHANGED <<prov, penv, sanVars, appVars>>

ProvNext == CallTextract \/ CallLandingAI \/ CallMistral

SpecProviders == ProvInit /\ [][ProvNext]_vars

\* ------------------------------------------------------------ comparison calls

\* Results as the provider functions return them: a text, an error string,
\* the empty string.
SampleTexts ==
    { <<"Hello\n">>, <<"Error processing with AWS Textract: ", "ThrottlingException">>, <<>> }

\* The mappings of up to n services to a text, in every insertion order.
RECURSIVE MappingsUpTo(_)
MappingsUpTo(n) ==
    IF n = 0 THEN { <<>> }
    ELSE MappingsUpTo(n - 1) \cup
         { Append(d, [service |-> sv, result |-> t])
           : d \in { e \in MappingsUpTo(n - 1) : Len(e) = n - 1 },
             sv \in { "AWS Textract", "Landing AI", "Mistral OCR" },
             t \in SampleTexts }

SampleMappings ==
    { d \in MappingsUpTo(MaxEntries) :
        \A j, k \in 1..Len(d) : d[j].service = d[k].service => j = k }

ModelChoices == { "OpenAI GPT-4o", "Claude Sonnet 3.5", "Llama" }

LlmAnswers == { [ok |-> <<"## Analysis">>], [err |-> "Connection error."] }

CompareEnvs ==
    { [given |-> d, model_choice |-> mc, openai_key |-> ok, anthropic_key |-> ak, llm |-> a]
      : d \in SampleMappings, mc \in ModelChoices, ok \in BOOLEAN, ak \in BOOLEAN,
        a \in LlmAnswers }

CmpInit ==
    /\ SanIdle
    /\ AppIdle
    /\ pphase = "ready"
    /\ pres = Null
    /\ prov = "compare_ocr_results"
    /\ penv \in CompareEnvs

CallCompare ==
    /\ pphase = "ready" /\ prov = "compare_ocr_results"
    /\ pres' = compare_ocr_results(penv.given, penv.model_choice, penv)
    /\ pphase' = "returned"
    /\ UNCHANGED <<prov, penv, sanVars, appVars>>

CmpNext == CallCompare

SpecCompare == CmpInit /\ [][CmpNext]_vars

\* ------------------------------------------------------------ the page (app.py)

Files == { "invoice.pdf", "scan.png" }

MaxSelected == 2

Services == << "AWS Textract", "Landing AI", "Mistral OCR", "Claude 3 Haiku" >>

\* os.path.splitext(selected_file)[1].lower()
ExtOf(file) == IF file = "scan.png" THEN ".png" ELSE ".pdf"

HelloBlocks ==
    [dict |-> ("Blocks" :> [list |-> <<
        [dict |-> ("BlockType" :> Str("LINE")) @@ ("Text" :> Str("Hello"))] >>])]

\* What the world may answer while aws_textract_ocr works on a document of
\* the directory: the PDF rasterizes into MaxPages pages or into none, the
\* renderer fails on it, or the renderer is missing.
AppTextractEnvs(file) ==
    IF file = "scan.png"
    THEN { TextractEnv(".png", TRUE, TRUE, "none", 0, <<a>>, NoAnswer)
           : a \in { [ok |-> ExpenseResponse(<<AcmeDocument>>)], [err |-> "ThrottlingException"] } }
    ELSE { TextractEnv(".pdf", TRUE, TRUE, "import_error", 0, <<>>, [ok |-> HelloBlocks]),
           TextractEnv(".pdf", TRUE, TRUE, "error", 0, <<>>, [ok |-> HelloBlocks]),
           TextractEnv(".pdf", TRUE, TRUE, "error", 0, <<>>,
                       [err |-> "UnsupportedDocumentException"]),
           TextractEnv(".pdf", TRUE, TRUE, "ok", 0, <<>>, [ok |-> HelloBlocks]),
           TextractEnv(".pdf", TRUE, TRUE, "ok", MaxPages,
                       [n \in 1..MaxPages |-> [ok |-> ExpenseResponse(<<AcmeDocument>>)]],
                       [ok |-> HelloBlocks]) }

\* What the world may answer to Landing AI or Mistral: the key is there
\* or not, and the request is served.
AppHttpEnvs(file) ==
    { [ext |-> ExtOf(file), exists |-> TRUE, key |-> k,
       http |-> [status |-> 200, text |-> "{}", json |-> <<EmptyDict>>]]
      : k \in BOOLEAN }

AppEnvs(service, file) ==
    IF service = "AWS Textract" THEN AppTextractEnvs(file) ELSE AppHttpEnvs(file)

\* The provider function process_document calls for a service that has one.
ProviderResult(service, env) ==
    IF service = "AWS Textract" THEN aws_textract_ocr(env)
    ELSE IF service = "Landing AI" THEN landing_ai_ocr(env)
    ELSE mistral_ocr(env)

\* The functions OCRServices defines; claude_haiku_ocr is not among them.
HasProviderFunction(service) == service \in { "AWS Textract", "Landing AI", "Mistral OCR" }

\* results[service] = result
DictPut(d, service, result) ==
    IF \E k \in 1..Len(d) : d[k].service = service
    THEN [k \in 1..Len(d) |-> IF d[k].service = service
                              THEN [service |-> service, result |-> result] ELSE d[k]]
    ELSE Append(d, [service |-> service, result |-> result])

DictKeys(d) == { d[k].service : k \in 1..Len(d) }

AppInit ==
    /\ SanIdle
    /\ ProvIdle
    /\ selected_file \in Files
    /\ ocr_services = <<"AWS Textract">>
    /\ ocr_results = <<>>
    /\ processed = FALSE
    /\ comparison_result = Null
    /\ comparison_model = Null
    /\ cached_for = Null
    /\ comparison_input = Null
    /\ pc = "idle"
    /\ pos = 0
    /\ results = <<>>
    /\ run_file = "none"
    /\ run_services = <<>>
    /\ log = <<>>
    /\ replaced = <<>>

\* The script run that a widget event starts has its own locals.
FreshRun ==
    /\ pc' = "idle"
    /\ pos' = 0
    /\ results' = <<>>
    /\ run_file' = "none"
    /\ run_services' = <<>>
    /\ log' = <<>>
    /\ replaced' = <<>>

\* The sidebar selectbox: another document; the script reruns and shows
\* what the session holds.
SelectFile ==
    /\ pc # "processing"
    /\ \E f \in Files \ {selected_file} : selected_file' = f
    /\ FreshRun
    /\ UNCHANGED <<ocr_services, sessionVars, sanVars, provVars>>

\* The multiselect: a service is added at the end or taken out.
ToggleService ==
    /\ pc # "processing"
    /\ \E n \in 1..Len(Services) :
          IF \E k \in 1..Len(ocr_services) : ocr_services[k] = Services[n]
          THEN ocr_services' = SelectSeq(ocr_services, LAMBDA x : x # Services[n])
          ELSE /\ Len(ocr_services) < MaxSelected
               /\ ocr_services' = Append(ocr_services, Services[n])
    /\ FreshRun
    /\ UNCHANGED <<selected_file, sessionVars, sanVars, provVars>>

\* "Get OCR Results" without the resets of the comparison.
ClickGetResultsKeepingComparison ==
    /\ pc # "processing"
    /\ ocr_services # <<>>
    /\ processed' = FALSE
    /\ pc' = "processing"
    /\ pos' = 1
    /\ results' = <<>>
    /\ run_file' = selected_file
    /\ run_services' = ocr_services
    /\ log' = <<>>
    /\ replaced' = <<>>
    /\ UNCHANGED <<selected_file, ocr_services, ocr_results, cached_for, comparison_result,
                   comparison_model, comparison_input, sanVars, provVars>>

\* "Get OCR Results": the resets of main, then process_document starts.
ClickGetResults ==
    /\ pc # "processing"
    /\ ocr_services # <<>>
    /\ processed' = FALSE
    /\ comparison_result' = Null
    /\ comparison_model' = Null
    /\ comparison_input' = Null
    /\ pc' = "processing"
    /\ pos' = 1
    /\ results' = <<>>
    /\ run_file' = selected_file
    /\ run_services' = ocr_services
    /\ log' = <<>>
    /\ replaced' = <<>>
    /\ UNCHANGED <<selected_file, ocr_services, ocr_results, cached_for, sanVars, provVars>>

\* One turn of the loop of process_document for a service whose provider
\* function exists: the function returns a string, which is kept.
ProcessService ==
    /\ pc = "processing"
    /\ pos <= Len(ocr_services)
    /\ HasProviderFunction(ocr_services[pos])
    /\ \E env \in AppEnvs(ocr_services[pos], selected_file) :
          LET r == ProviderResult(ocr_services[pos], env)
          IN  /\ results' = DictPut(results, ocr_services[pos], r.ret)
              /\ log' = Append(log, [service |-> ocr_services[pos], env |-> env,
                                     calls |-> r.calls, ret |-> r.ret])
    /\ pos' = pos + 1
    /\ UNCHANGED <<pc, run_file, run_services, replaced, selected_file, ocr_services,
                   sessionVars, sanVars, provVars>>

\* One turn of the loop for a service without provider function: the
\* attribute lookup raises, process_document and the script run end there.
ProcessMissingFunction ==
    /\ pc = "processing"
    /\ pos <= Len(ocr_services)
    /\ ~HasProviderFunction(ocr_services[pos])
    /\ pc' = "raised"
    /\ UNCHANGED <<pos, results, run_file, run_services, log, replaced, selected_file,
                   ocr_services, sessionVars, sanVars, provVars>>

\* d.update(e)
RECURSIVE DictUpdate(_, _)
DictUpdate(d, e) ==
    IF e = <<>> THEN d
    ELSE DictUpdate(DictPut(d, Head(e).service, Head(e).result), Tail(e))

\* The end of process_document with the results merged into the session's.
StoreResultsMerging ==
    /\ pc = "processing"
    /\ pos > Len(ocr_services)
    /\ ocr_results' = DictUpdate(ocr_results, results)
    /\ processed' = TRUE
    /\ cached_for' = [file |-> run_file, services |-> run_services]
    /\ replaced' = ocr_results
    /\ pc' = "stored"
    /\ UNCHANGED <<pos, results, run_file, run_services, log, selected_file,
                   ocr_services, comparison_result, comparison_model,
                   comparison_input, sanVars, provVars>>

\* The end of process_document: the results go to the session.
StoreResults ==
    /\ pc = "processing"
    /\ pos > Len(ocr_services)
    /\ ocr_results' = results
    /\ processed' = TRUE
    /\ cached_for' = [file |-> run_file, services |-> run_services]
    /\ replaced' = ocr_results
    /\ pc' = "stored"
    /\ UNCHANGED <<pos, results, run_file, run_services, log, selected_file,
                   ocr_services, comparison_result, comparison_model,
                   comparison_input, sanVars, provVars>>

LlmChoices == { "OpenAI GPT-4o", "Claude Sonnet 3.5" }

\* What the world may answer to the comparison: the keys are there or not,
\* the model answers or the request fails.
AppLlmEnvs ==
    { [openai_key |-> k, anthropic_key |-> k, llm |-> a] : k \in BOOLEAN, a \in LlmAnswers }

\* "Compare Results with LLM": offered once results of more than one
\* service are stored; compare_results keeps the answer and the model.
CompareResults ==
    /\ pc # "processing"
    /\ ocr_services # <<>>
    /\ processed
    /\ Len(ocr_results) > 1
    /\ \E model_choice \in LlmChoices, env \in AppLlmEnvs :
          LET r == compare_ocr_results(ocr_results, model_choice, env)
          IN  /\ comparison_result' = [str |-> r.ret]
              /\ comparison_model' = Str(model_choice)
              /\ comparison_input' = r.results
    /\ FreshRun
    /\ UNCHANGED <<selected_file, ocr_services, ocr_results, processed, cached_for,
                   sanVars, provVars>>

Next ==
    \/ SelectFile
    \/ ToggleService
    \/ ClickGetResults
    \/ ProcessService
    \/ ProcessMissingFunction
    \/ StoreResults
    \/ CompareResults

Spec == AppInit /\ [][Next]_vars

\* ------------------------------------------------------------ sanitizer claims

\* A path into a JSON value: a sequence of steps, [k |-> key] into a mapping
\* or [i |-> index] into a sequence.
RECURSIVE PathsOf(_)
PathsOf(x) ==
    { <<>> } \cup
    IF IsDict(x)
    THEN UNION { { <<[k |-> key]>> \o p : p \in PathsOf(x.dict[key]) }
                 : key \in DOMAIN x.dict }
    ELSE IF IsList(x)
    THEN UNION { { <<[i |-> n]>> \o p : p \in PathsOf(x.list[n]) }
                 : n \in 1..Len(x.list) }
    ELSE {}

RECURSIVE ValueAt(_, _)
ValueAt(x, p) ==
    IF p = <<>> THEN x
    ELSE IF DOMAIN Head(p) = {"k"}
    THEN ValueAt(x.dict[Head(p).k], Tail(p))
    ELSE ValueAt(x.list[Head(p).i], Tail(p))

IsNoiseStep(st) == DOMAIN st = {"k"} /\ st.k \in NoiseNames
NoiseFree(p) == \A n \in 1..Len(p) : ~IsNoiseStep(p[n])

KindOf(x) == IF IsDict(x) THEN "dict" ELSE IF IsList(x) THEN "list" ELSE "scalar"

SameNode(a, b) ==
    /\ KindOf(a) = KindOf(b)
    /\ IsScalar(a) => a = b
    /\ IsList(a) => Len(a.list) = Len(b.list)

\* C1: sanitization is idempotent: sanitizing an already sanitized payload
\* gives back the same structure, for every JSON-like payload.
C1_Idempotent ==
    sphase = "recleaned" => recleaned = cleaned

\* C1 witness: a payload with noise keys at two levels was sanitized twice.
C1_Witness ==
    /\ sphase = "recleaned"
    /\ cleaned # payload
    /\ \E p \in PathsOf(payload) :
          /\ Len(p) >= 2
          /\ IsNoiseStep(p[Len(p)])
          /\ NoiseFree(SubSeq(p, 1, Len(p) - 1))
    /\ \E p \in PathsOf(payload) : Len(p) = 1 /\ IsNoiseStep(p[1])

\* C2: the sanitized payload is the payload with exactly the noise-named keys
\* (each with its value) deleted at every mapping level of every depth,
\* mappings inside sequences included: its paths are the payload's paths
\* that go through no noise-named key, so every other key of every mapping
\* that is left is kept and no noise-named key remains; every node keeps its
\* kind, every scalar its value and every sequence its length and order.
C2_ExactlyNoiseDeleted ==
    sphase # "input" =>
        /\ PathsOf(cleaned) = { p \in PathsOf(payload) : NoiseFree(p) }
        /\ \A p \in PathsOf(cleaned) : SameNode(ValueAt(cleaned, p), ValueAt(payload, p))

\* C2 witness: a payload with a noise key three levels down, below a
\* sequence, was sanitized, and a key that is not noise is left in the result.
C2_Witness ==
    /\ sphase = "cleaned"
    /\ cleaned # payload
    /\ \E p \in PathsOf(payload) :
          /\ Len(p) >= 3
          /\ IsNoiseStep(p[Len(p)])
          /\ \E n \in 1..Len(p) : DOMAIN p[n] = {"i"}
    /\ \E p \in PathsOf(cleaned) : p # <<>> /\ DOMAIN p[Len(p)] = {"k"}

\* ------------------------------------------------------------ Textract claims

TextractReturned == pphase = "returned" /\ prov = "AWS Textract"
IsPdf == penv.ext = ".pdf"
Rasterized == IsPdf /\ penv.raster = "ok" /\ penv.pages >= 1

CallsTo(api) == SelectSeq(pres.calls, LAMBDA c : c.api = api)

Failed(answer) == DOMAIN answer = {"err"}

\* The pages whose analyze_expense call fails with a vendor error.
FailingPages == { n \in 1..penv.pages : Failed(VendorAnswer(penv, penv.expense[n])) }

\* Every Type and ValueDetection of the response is a mapping.
WellFormed(response) ==
    \A p \in PathsOf(response) :
        (p # <<>> /\ DOMAIN p[Len(p)] = {"k"} /\ p[Len(p)].k \in {"Type", "ValueDetection"})
            => IsDict(ValueAt(response, p))

\* The primary path of a PDF ran to its end: every page was extracted and
\* formatted.
PrimarySucceeds ==
    /\ Rasterized
    /\ FailingPages = {}
    /\ \A n \in 1..penv.pages : WellFormed(penv.expense[n].ok)

DetectTitle == "AWS Textract Analysis Summary (DetectDocumentText):\n\n"
ErrorPrefix == "Error processing with AWS Textract: "

\* C4: one-shot fallback.  When analyze_expense fails on a page of a PDF,
\* detect_document_text is called exactly once, on the whole file and as the
\* last vendor call; its summary is returned, or, when it fails too, an
\* error result.  The fallback call is never made twice, and never made
\* when the primary path ran to its end.
C4_OneShotFallback ==
    TextractReturned =>
        /\ (Rasterized /\ FailingPages # {}) =>
              /\ Len(CallsTo("detect_document_text")) = 1
              /\ pres.calls[Len(pres.calls)] = VendorCall("detect_document_text", 0)
              /\ IF Failed(VendorAnswer(penv, penv.detect))
                 THEN pres.ret = <<ErrorPrefix, VendorAnswer(penv, penv.detect).err>>
                 ELSE pres.ret[1] = DetectTitle
        /\ Len(CallsTo("detect_document_text")) <= 1
        /\ (~IsPdf \/ PrimarySucceeds) => CallsTo("detect_document_text") = <<>>

\* C4 witness: page 2 of a two-page PDF failed and the fallback failed too.
C4_Witness ==
    /\ TextractReturned /\ Rasterized /\ penv.creds
    /\ FailingPages = {2}
    /\ Failed(penv.detect)
    /\ Len(pres.calls) = 3
    /\ pres.ret[1] = ErrorPrefix

\* The page indexes of the "--- PAGE <index> ---" headers of a summary.
RECURSIVE PagesListed(_)
PagesListed(text) ==
    IF Len(text) < 2 THEN <<>>
    ELSE IF Head(text) = "--- PAGE " THEN <<text[2]>> \o PagesListed(Tail(Tail(text)))
    ELSE PagesListed(Tail(text))

\* The pages, in ascending order, whose response carries ExpenseDocuments.
RECURSIVE ExpensePages(_)
ExpensePages(n) ==
    IF n = 0 THEN <<>>
    ELSE ExpensePages(n - 1)
         \o (IF HasKey(penv.expense[n].ok, "ExpenseDocuments") THEN <<ToString(n)>> ELSE <<>>)

\* C5: for a PDF of N pages whose per-page calls all succeed, analyze_expense
\* is called exactly N times, the k-th call on page k, nothing else is
\* called, and the summary lists the pages in ascending page index: pages
\* 1..N when every response is an expense response.
C5_OneCallPerPageInOrder ==
    (TextractReturned /\ PrimarySucceeds) =>
        /\ pres.calls = [k \in 1..penv.pages |-> VendorCall("analyze_expense", k)]
        /\ PagesListed(pres.ret) = ExpensePages(penv.pages)
        /\ (\A n \in 1..penv.pages : HasKey(penv.expense[n].ok, "ExpenseDocuments"))
              => PagesListed(pres.ret) = [k \in 1..penv.pages |-> ToString(k)]

\* C5 witness: a two-page PDF, both calls succeeded, pages 1 and 2 listed.
C5_Witness ==
    /\ TextractReturned /\ PrimarySucceeds
    /\ penv.pages = 2
    /\ Len(pres.calls) = 2
    /\ PagesListed(pres.ret) = <<"1", "2">>
\* The sections of a summary: for each page header the documents numbered
\* after it; documents before any header are under page "none".
RECURSIVE SectionsFrom(_, _, _)
SectionsFrom(text, i, acc) ==
    IF i >= Len(text) THEN acc
    ELSE IF text[i] = "--- PAGE "
    THEN SectionsFrom(text, i + 2, Append(acc, [page |-> text[i + 1], docs |-> <<>>]))
    ELSE IF text[i] = "Document "
    THEN SectionsFrom(text, i + 2,
            IF acc = <<>> THEN <<[page |-> "none", docs |-> <<text[i + 1]>>]>>
            ELSE [acc EXCEPT ![Len(acc)].docs = Append(@, text[i + 1])])
    ELSE SectionsFrom(text, i + 1, acc)
Sections(text) == SectionsFrom(text, 1, <<>>)

DocNumbers(response) ==
    [n \in 1..Len(response.dict["ExpenseDocuments"].list) |-> ToString(n)]

\* The sections a PDF's pages should give: one per expense response.
RECURSIVE ExpectedSections(_)
ExpectedSections(n) ==
    IF n = 0 THEN <<>>
    ELSE ExpectedSections(n - 1)
         \o (IF HasKey(penv.expense[n].ok, "ExpenseDocuments")
             THEN <<[page |-> ToString(n), docs |-> DocNumbers(penv.expense[n].ok)]>>
             ELSE <<>>)

\* The image branch returned its summary.
ImageSucceeds ==
    /\ ~IsPdf /\ penv.exists
    /\ ~Failed(VendorAnswer(penv, penv.expense[1]))
    /\ HasKey(penv.expense[1].ok, "ExpenseDocuments")
    /\ WellFormed(penv.expense[1].ok)

\* C6 as stated: the summary of an expense result has a header line
\* "--- PAGE <index> ---" for every page of the result, for a multi-page PDF
\* and for a single-page image alike.
C6_HeaderForEveryPage ==
    TextractReturned =>
        /\ (PrimarySucceeds /\ \A n \in 1..penv.pages : HasKey(penv.expense[n].ok, "ExpenseDocuments"))
              => PagesListed(pres.ret) = [k \in 1..penv.pages |-> ToString(k)]
        /\ ImageSucceeds => PagesListed(pres.ret) = <<"1">>

\* C6 amended: the summary of a PDF has a header line "--- PAGE <index> ---"
\* for every page whose response carries ExpenseDocuments, each followed by
\* that page's "Document <n>:" blocks, numbered from 1; the summary of an
\* image has its "Document <n>:" blocks and no page header.
C6_HeaderPerPdfPage ==
    TextractReturned =>
        /\ PrimarySucceeds => Sections(pres.ret) = ExpectedSections(penv.pages)
        /\ ImageSucceeds =>
              /\ PagesListed(pres.ret) = <<>>
              /\ Sections(pres.ret) =
                    IF penv.expense[1].ok.dict["ExpenseDocuments"].list = <<>> THEN <<>>
                    ELSE <<[page |-> "none", docs |-> DocNumbers(penv.expense[1].ok)]>>

\* C6 witness: a two-page PDF gave two headers, the second page two documents.
C6_Witness ==
    /\ TextractReturned /\ PrimarySucceeds
    /\ Sections(pres.ret) = << [page |-> "1", docs |-> <<"1">>],
                               [page |-> "2", docs |-> <<"1", "2">>] >>

\* The "<type>: <value>" lines of a summary, as <<type, value>> pairs.
RECURSIVE FieldLinesFrom(_, _)
FieldLinesFrom(text, i) ==
    IF i + 4 > Len(text) THEN <<>>
    ELSE IF text[i] \in {"    ", "      "} /\ text[i + 2] = ": " /\ text[i + 4] = "\n"
    THEN << <<text[i], text[i + 1], text[i + 3]>> >> \o FieldLinesFrom(text, i + 5)
    ELSE FieldLinesFrom(text, i + 1)
FieldLines(text) == FieldLinesFrom(text, 1)

RECURSIVE Flatten(_)
Flatten(ss) == IF ss = <<>> THEN <<>> ELSE Head(ss) \o Flatten(Tail(ss))

ListAt(obj, key) == IF HasKey(obj, key) THEN obj.dict[key].list ELSE <<>>

\* The line a field should give: Type.Text or Unknown, ValueDetection.Text or N/A.
ExpectedLine(indent, field) ==
    << indent,
       IF HasKey(field, "Type") /\ HasKey(field.dict["Type"], "Text")
       THEN field.dict["Type"].dict["Text"].str ELSE "Unknown",
       IF HasKey(field, "ValueDetection") /\ HasKey(field.dict["ValueDetection"], "Text")
       THEN field.dict["ValueDetection"].dict["Text"].str ELSE "N/A" >>

\* The fields of a document in source order: the summary fields, then the
\* expense fields of every item of every line item group.
ExpectedDocLines(doc) ==
    [n \in 1..Len(ListAt(doc, "SummaryFields")) |->
        ExpectedLine("    ", ListAt(doc, "SummaryFields")[n])]
    \o Flatten([g \in 1..Len(ListAt(doc, "LineItemGroups")) |->
         Flatten([it \in 1..Len(ListAt(ListAt(doc, "LineItemGroups")[g], "LineItems")) |->
            LET item == ListAt(ListAt(doc, "LineItemGroups")[g], "LineItems")[it]
            IN  [n \in 1..Len(ListAt(item, "LineItemExpenseFields")) |->
                    ExpectedLine("      ", ListAt(item, "LineItemExpenseFields")[n])]])])

ExpectedLines(response) ==
    Flatten([d \in 1..Len(ListAt(response, "ExpenseDocuments")) |->
                ExpectedDocLines(ListAt(response, "ExpenseDocuments")[d])])

\* C7: every summary field and every line-item expense field of an expense
\* document gives exactly one "<type>: <value>" line, in source order, with
\* Unknown for a missing Type.Text and N/A for a missing ValueDetection.Text;
\* a field that lacks them raises nothing: the summary is returned.
C7_FieldLines ==
    TextractReturned =>
        /\ ImageSucceeds =>
              /\ pres.ret[1] = "AWS Textract Analysis Summary (AnalyzeExpense):\n\n"
              /\ FieldLines(pres.ret) = ExpectedLines(penv.expense[1].ok)
        /\ PrimarySucceeds =>
              FieldLines(pres.ret) =
                 Flatten([n \in 1..penv.pages |-> ExpectedLines(penv.expense[n].ok)])

\* C7 witness: an image whose document has the summary field VENDOR_NAME =
\* Acme and a field without Type and ValueDetection gave "    VENDOR_NAME:
\* Acme" and "    Unknown: N/A", and no line item group.
C7_Witness ==
    /\ TextractReturned /\ ImageSucceeds
    /\ FieldLines(pres.ret) = << <<"    ", "VENDOR_NAME", "Acme">>, <<"    ", "Unknown", "N/A">> >>
    /\ \A i \in 1..Len(pres.ret) : pres.ret[i] # "  Line Item Group "

\* The fallback returned its summary.
FallbackSucceeds ==
    /\ IsPdf /\ penv.exists
    /\ penv.raster = "error" \/ (Rasterized /\ ~PrimarySucceeds)
    /\ ~Failed(VendorAnswer(penv, penv.detect))

LineBlocks(response) ==
    SelectSeq(ListAt(response, "Blocks"),
              LAMBDA b : HasKey(b, "BlockType") /\ b.dict["BlockType"] = Str("LINE"))

\* C8: the text the plain-text extraction gives is the Text of every block
\* of type LINE, in block order, each followed by a newline; blocks of any
\* other type give nothing.
C8_LineBlocksOnly ==
    (TextractReturned /\ FallbackSucceeds) =>
        pres.ret = <<DetectTitle, "Extracted Text:\n">>
                   \o Flatten([n \in 1..Len(LineBlocks(penv.detect.ok)) |->
                         (IF HasKey(LineBlocks(penv.detect.ok)[n], "Text")
                          THEN <<LineBlocks(penv.detect.ok)[n].dict["Text"].str>>
                          ELSE <<>>) \o <<"\n">>])

\* C8 witness: blocks LINE Hello, WORD ignored, LINE World gave "Hello\nWorld\n".
C8_Witness ==
    /\ TextractReturned /\ FallbackSucceeds
    /\ Len(ListAt(penv.detect.ok, "Blocks")) = 3
    /\ \E i \in 1..3 : ListAt(penv.detect.ok, "Blocks")[i].dict["BlockType"] = Str("WORD")
    /\ pres.ret = <<DetectTitle, "Extracted Text:\n", "Hello", "\n", "World", "\n">>

\* ------------------------------------------------------------ error reporting claims

\* The literals of the source that open an error message and name the
\* provider; those of the first set are followed by the cause.
ErrorLiteralsWithCause(provider) ==
    IF provider = "AWS Textract" THEN { "Error processing with AWS Textract: " }
    ELSE IF provider = "Landing AI"
    THEN { "Error processing with Landing AI: ", "Unsupported file type for Landing AI: ",
           "Landing AI API error: " }
    ELSE { "Error processing with Mistral OCR: ", "Unsupported file type for Mistral OCR: ",
           "Mistral OCR API error: " }
ErrorLiteralsAlone(provider) ==
    IF provider = "Landing AI" THEN { "Landing AI credentials not configured in .env file" }
    ELSE IF provider = "Mistral OCR" THEN { "Mistral OCR credentials not configured in .env file" }
    ELSE {}

\* The result is an error message that names the provider and the cause.
NamesProviderAndCause(text, provider) ==
    \/ Len(text) = 1 /\ text[1] \in ErrorLiteralsAlone(provider)
    \/ Len(text) >= 2 /\ text[1] \in ErrorLiteralsWithCause(provider)

\* Something failed during the call of the HTTP providers.
HttpFailure ==
    \/ ~penv.key
    \/ penv.ext \notin {".pdf", ".jpg", ".jpeg", ".png"}
    \/ ~penv.exists
    \/ DOMAIN penv.http = {"exc"}
    \/ penv.http.status # 200
    \/ penv.http.json = <<>>

\* Something failed during the call of aws_textract_ocr.
TextractFailure ==
    IF IsPdf THEN ~PrimarySucceeds ELSE ~ImageSucceeds

ProviderFailure ==
    IF prov = "AWS Textract" THEN TextractFailure ELSE HttpFailure

\* The cause the outer handler of aws_textract_ocr reports.
TextractCause ==
    IF ~penv.exists THEN "[Errno 2] No such file or directory"
    ELSE IF IsPdf THEN VendorAnswer(penv, penv.detect).err
    ELSE IF Failed(VendorAnswer(penv, penv.expense[1]))
    THEN VendorAnswer(penv, penv.expense[1]).err
    ELSE IF ~HasKey(penv.expense[1].ok, "ExpenseDocuments")
    THEN "cannot access local variable 'summary' where it is not associated with a value"
    ELSE "'NoneType' object has no attribute 'get'"

\* The cause the HTTP providers report after their opening literal.
HttpCause ==
    IF penv.ext \notin {".pdf", ".jpg", ".jpeg", ".png"} THEN penv.ext
    ELSE IF ~penv.exists THEN "[Errno 2] No such file or directory"
    ELSE IF DOMAIN penv.http = {"exc"} THEN penv.http.exc
    ELSE IF penv.http.status # 200 THEN ToString(penv.http.status)
    ELSE "Expecting value: line 1 column 1 (char 0)"

\* C9 as stated: on every failure path of every provider function the
\* result is a string that names the provider and the cause.
C9_EveryFailureNamed ==
    (pphase = "returned" /\ ProviderFailure) => NamesProviderAndCause(pres.ret, prov)

\* C9 amended: every failure path returns a string and raises nothing.  The
\* string names the provider and the cause on every failure path of Landing
\* AI and Mistral OCR and on the Textract paths that end in the outer
\* handler.  In the PDF branch of Textract an empty rasterization returns
\* "Failed to extract images from PDF" and a missing renderer "PDF processing
\* error: <cause>", neither naming the provider, and any other failure that
\* the plain-text fallback recovers from returns the fallback's summary,
\* which does not mention the failure.
C9_FailureStrings ==
    (pphase = "returned" /\ ProviderFailure) =>
        /\ pres.ret # <<>>
        /\ IF prov # "AWS Textract"
           THEN /\ NamesProviderAndCause(pres.ret, prov)
                /\ penv.key => pres.ret[2] = HttpCause
           ELSE IF IsPdf /\ penv.raster = "import_error"
           THEN pres.ret = <<"PDF processing error: ", ImportErrorText>>
           ELSE IF IsPdf /\ penv.raster = "ok" /\ penv.pages = 0
           THEN pres.ret = <<"Failed to extract images from PDF">>
           ELSE IF FallbackSucceeds
           THEN pres.ret[1] = DetectTitle
           ELSE pres.ret = <<ErrorPrefix, TextractCause>>

\* C9 witness: Landing AI without its key answered with its "not configured"
\* message and made no request.
C9_Witness ==
    /\ pphase = "returned" /\ prov = "Landing AI"
    /\ ~penv.key
    /\ pres.ret = <<"Landing AI credentials not configured in .env file">>
    /\ pres.calls = <<>>

\* ------------------------------------------------------------ multi-provider request claims

\* process_document has ended: it returned, or an exception left it.
RunEnded == pc \in {"stored", "raised"}

\* The service of the request was invoked: its provider function was called
\* and returned.
Invoked(service) == \E k \in 1..Len(log) : log[k].service = service

\* The result of the service is in the mapping this request stored.
Stored(service) ==
    /\ processed
    /\ ocr_results = results
    /\ service \in DictKeys(ocr_results)

\* The provider whose failure is an exception: the one without function.
FailsByRaising(service) == ~HasProviderFunction(service)

\* C3: when a multi-provider request has ended, every selected provider other
\* than one that failed by raising was invoked and has its result in the
\* stored mapping.
C3_OthersComplete ==
    RunEnded =>
        \A k \in 1..Len(run_services) :
            ~FailsByRaising(run_services[k]) =>
                Invoked(run_services[k]) /\ Stored(run_services[k])

\* The PDF could not be split into pages: the renderer is missing, it fails
\* on the document, or it gives no page.
RasterFailed(env) ==
    /\ env.ext = ".pdf"
    /\ \/ env.raster \in {"import_error", "error"}
       \/ env.raster = "ok" /\ env.pages = 0

\* The turns of the loop in which Textract met a rasterization failure.
RasterFailures ==
    { k \in 1..Len(log) : log[k].service = "AWS Textract" /\ RasterFailed(log[k].env) }

\* The strings with which the PDF branch reports a document it gives up on.
IsGivenUp(ret) ==
    \/ ret = <<"Failed to extract images from PDF">>
    \/ Len(ret) = 2 /\ Head(ret) \in {"PDF processing error: ", ErrorPrefix}

\* Once the request has ended, every whole-document provider of the request
\* was invoked.
WholeDocumentProvidersProceed ==
    RunEnded =>
        \A k \in 1..Len(run_services) :
            run_services[k] \in {"Landing AI", "Mistral OCR"} => Invoked(run_services[k])

\* C10: on a rasterization failure Textract reports an error for
\* the document and calls the vendor no more for it, and the whole-document
\* providers of the request are invoked.
C10_RasterFailureIsFatal ==
    \A k \in RasterFailures :
        /\ log[k].calls = <<>>
        /\ IsGivenUp(log[k].ret)
        /\ WholeDocumentProvidersProceed

\* ------------------------------------------------------------ single-call provider claims

\* A provider with single-call support has returned: Landing AI, Mistral
\* OCR, or Textract on a document that is not a PDF.
SingleCallReturned ==
    /\ pphase = "returned"
    /\ \/ prov \in {"Landing AI", "Mistral OCR"}
       \/ prov = "AWS Textract" /\ ~IsPdf

\* The invocation gets as far as its vendor: the document can be read and,
\* for the HTTP providers, the key is configured and the type is supported.
ReachesVendor ==
    /\ penv.exists
    /\ prov \in {"Landing AI", "Mistral OCR"} =>
          penv.key /\ penv.ext \in {".pdf", ".jpg", ".jpeg", ".png"}

\* The one call the provider makes on the whole document.
WholeDocumentCall ==
    IF prov = "AWS Textract" THEN VendorCall("analyze_expense", 0) ELSE HttpCall

\* C11 as stated: an invocation of a single-call provider makes exactly one
\* vendor call, and no plain-text fallback call.
C11_ExactlyOneCall ==
    SingleCallReturned =>
        /\ Len(pres.calls) = 1
        /\ CallsTo("detect_document_text") = <<>>

\* C11, amended: an invocation of a single-call provider makes at most one
\* vendor call, on the whole document, and never a plain-text fallback call,
\* also when that call fails.  It makes exactly one when the document can be
\* read and, for Landing AI and Mistral OCR, the key is configured and the
\* file type is supported; otherwise it makes none.
C11_AtMostOneCall ==
    SingleCallReturned =>
        /\ Len(pres.calls) <= 1
        /\ CallsTo("detect_document_text") = <<>>
        /\ IF ReachesVendor THEN pres.calls = <<WholeDocumentCall>>
                            ELSE pres.calls = <<>>

\* C11 witness: the single call of Textract on an image failed, and the
\* error was returned after that one call.
C11_Witness ==
    /\ SingleCallReturned
    /\ prov = "AWS Textract"
    /\ penv.exists /\ penv.creds
    /\ Failed(penv.expense[1])
    /\ pres.calls = <<VendorCall("analyze_expense", 0)>>
    /\ pres.ret[1] = ErrorPrefix

\* ------------------------------------------------------------ comparison claims

CompareReturned == pphase = "returned" /\ prov = "compare_ocr_results"

\* The credential of the chosen model is absent.
KeyAbsent ==
    \/ penv.model_choice = "OpenAI GPT-4o" /\ ~penv.openai_key
    \/ penv.model_choice = "Claude Sonnet 3.5" /\ ~penv.anthropic_key

NotConfigured ==
    IF penv.model_choice = "OpenAI GPT-4o"
    THEN <<"OpenAI API key not configured in .env file">>
    ELSE <<"Anthropic API key not configured in .env file">>

\* C13: with the credential of the chosen supported model absent,
\* compare_ocr_results returns the "not configured" message of that model,
\* raises nothing, calls no model, and leaves the results mapping as it was.
C13_NotConfigured ==
    (CompareReturned /\ KeyAbsent) =>
        /\ DOMAIN pres = {"ret", "calls", "results"}
        /\ pres.ret = NotConfigured
        /\ pres.calls = <<>>
        /\ pres.results = penv.given

\* C13 witness: Claude Sonnet 3.5 chosen for two results with only the
\* OpenAI key configured.
C13_Witness ==
    /\ CompareReturned
    /\ penv.model_choice = "Claude Sonnet 3.5"
    /\ penv.openai_key /\ ~penv.anthropic_key
    /\ Len(penv.given) = 2
    /\ pres.ret = <<"Anthropic API key not configured in .env file">>
    /\ pres.calls = <<>>

\* ------------------------------------------------------------ display cache claims

\* A "Get OCR Results" run has just completed.
RunCompleted == pc = "stored"

\* The mapping has exactly one entry per service of the selection, in its
\* order.
OneEntryPerService(d, selection) ==
    /\ Len(d) = Len(selection)
    /\ \A k \in 1..Len(d) : d[k].service = selection[k]

\* Once a run has completed, the stored mapping has one entry per service of
\* that run, each holding what the provider returned in that run; and the
\* stored mapping shown as processed is that of a completed run.
C12_Replaced ==
    /\ RunCompleted =>
          /\ processed
          /\ OneEntryPerService(ocr_results, run_services)
          /\ Len(log) = Len(run_services)
          /\ \A k \in 1..Len(ocr_results) :
                /\ log[k].service = run_services[k]
                /\ ocr_results[k].result = log[k].ret
    /\ processed =>
          /\ pc \in {"idle", "stored"}
          /\ cached_for # Null
          /\ OneEntryPerService(ocr_results, cached_for.services)

\* processed becomes true only in the step that completes a run and stores
\* its results.
C12_OnlyOnCompletion ==
    (~processed /\ processed') =>
        /\ pc = "processing" /\ pc' = "stored"
        /\ pos > Len(run_services)
        /\ ocr_results' = results

\* C12: a rerun replaces the display cache.  After any sequence of runs, once
\* a "Get OCR Results" run completes, ocr_results holds exactly one entry per
\* provider selected in that run, each produced in that run, and none left
\* over from an earlier run; processed is true only after such a completed
\* run.
C12_RerunReplacesCache == [][C12_OnlyOnCompletion]_vars /\ []C12_Replaced

\* C12 witness: a run for Mistral alone completed while the session held
\* the results of an earlier run for Textract and Landing AI; only the
\* Mistral entry is stored.
C12_Witness ==
    /\ RunCompleted
    /\ DictKeys(replaced) = {"AWS Textract", "Landing AI"}
    /\ run_services = <<"Mistral OCR">>
    /\ Len(ocr_results) = 1
    /\ ocr_results[1].service = "Mistral OCR"
    /\ cached_for.services = <<"Mistral OCR">>
    /\ comparison_result = Null

\* The selection of the sidebar and the multiselect, as the key of the cache.
SameProviderSet(a, b) ==
    { a[k] : k \in 1..Len(a) } = { b[k] : k \in 1..Len(b) }

\* The page shows the cached results: no run is in progress and processed is
\* set.
ShowsCachedResults == processed /\ pc \in {"idle", "stored"} /\ ocr_services # <<>>

\* C14: whenever the page shows cached OCR results, they are the results
\* produced for the currently selected document and the currently selected
\* set of providers.
C14_CacheMatchesSelection ==
    ShowsCachedResults =>
        /\ cached_for.file = selected_file
        /\ SameProviderSet(cached_for.services, ocr_services)

\* ------------------------------------------------------------ session state claims

\* "Get OCR Results" was clicked in this step.
Clicked == pc # "processing" /\ pc' = "processing"

\* Whenever a comparison is stored, results of a completed run with at least
\* two entries are stored, the model is stored, and the comparison was
\* computed from the stored results.
C16_ComparisonState ==
    comparison_result # Null =>
        /\ processed
        /\ Len(ocr_results) >= 2
        /\ comparison_model # Null
        /\ comparison_model.str \in LlmChoices
        /\ comparison_input = ocr_results

\* A click clears the comparison and its model before any provider is
\* processed.
C16_ClickClears ==
    Clicked =>
        /\ comparison_result' = Null
        /\ comparison_model' = Null
        /\ log' = <<>> /\ results' = <<>>

\* C16: over any sequence of UI events, runs that abort included: whenever
\* comparison_result is set, processed is true, ocr_results has at least two
\* entries, comparison_model is set and the comparison was computed from the
\* stored ocr_results; every "Get OCR Results" click clears comparison_result
\* and comparison_model before any provider is processed.
C16_SessionInvariant == [][C16_ClickClears]_vars /\ []C16_ComparisonState

\* C16 witness: a comparison by Claude Sonnet 3.5 is stored, computed from
\* the two stored results.
C16_Witness ==
    /\ comparison_result # Null
    /\ comparison_model = Str("Claude Sonnet 3.5")
    /\ processed
    /\ Len(ocr_results) = 2
    /\ comparison_input = ocr_results
    /\ pc = "idle"

\* ------------------------------------------------------------ partial result claims

\* The first page whose analyze_expense call fails.
FirstFailingPage == CHOOSE k \in FailingPages : \A m \in FailingPages : k <= m

\* The literals that only the expense formatting writes.
ExpenseLiterals ==
    { "AWS Textract Analysis Summary (Multiple Pages):\n\n", "--- PAGE ", "Document ",
      "  Line Item Group ", "    Item " }

\* What the whole-document plain-text answer alone gives: the summary of its
\* LINE blocks, or the error string with its cause.
FromPlainTextOnly(answer) ==
    IF Failed(answer) THEN <<ErrorPrefix, answer.err>>
    ELSE <<DetectTitle, "Extracted Text:\n">>
         \o Flatten([n \in 1..Len(LineBlocks(answer.ok)) |->
               (IF HasKey(LineBlocks(answer.ok)[n], "Text")
                THEN <<LineBlocks(answer.ok)[n].dict["Text"].str>>
                ELSE <<>>) \o <<"\n">>])

\* C15: when analyze_expense fails at page k of an N-page PDF, it was called
\* for the pages 1..k in order and for no page after k, and the result is
\* built from the whole-document plain-text answer only: nothing of the
\* pages 1..k-1 already extracted is in it.
C15_PartialPagesDiscarded ==
    (TextractReturned /\ Rasterized /\ FailingPages # {}) =>
        /\ CallsTo("analyze_expense") =
              [n \in 1..FirstFailingPage |-> VendorCall("analyze_expense", n)]
        /\ \A c \in 1..Len(pres.calls) : pres.calls[c].page <= FirstFailingPage
        /\ pres.ret = FromPlainTextOnly(VendorAnswer(penv, penv.detect))
        /\ \A t \in 1..Len(pres.ret) : pres.ret[t] \notin ExpenseLiterals

\* C15 witness: page 1 of a PDF of at least two pages gave an expense
\* document, the last page failed, and the result is the plain text alone.
C15_Witness ==
    /\ TextractReturned /\ Rasterized /\ penv.creds
    /\ penv.pages >= 2
    /\ FailingPages = {penv.pages}
    /\ penv.expense[1] = [ok |-> ExpenseResponse(<<AcmeDocument>>)]
    /\ Len(CallsTo("analyze_expense")) = penv.pages
    /\ pres.ret = <<DetectTitle, "Extracted Text:\n", "Hello", "\n">>

====
